---- MODULE Spec2Model ----
(***************************************************************************)
(* Model of src/app.py: the SnippingTool backend (capture session, drag    *)
(* state, capture_region, process_ocr), the full-screen overlay it drives  *)
(* and the remote OCR call perform_ocr_with_gemini.                        *)
(*                                                                         *)
(* The program is single threaded and event driven: every handler runs to  *)
(* completion on the GUI thread, signals are delivered synchronously, so   *)
(* one action of the model is one whole handler.                           *)
(***************************************************************************)
EXTENDS Integers, Sequences, FiniteSets, TLC

\* ------------------------------------------------------------------ bounds
\* Pointer coordinates range over 0..MaxCoord on both axes.
MaxCoord == 2
\* At most this many overlay surfaces are open at once (start_capture is cut off
\* beyond it).
MaxSurfaces == 2
\* At most this many override cursors are pending (start_capture is cut off beyond it).
MaxCursors == 2
\* At most this many capture_region calls are counted between two start_capture calls.
MaxCaptures == 2

\* ------------------------------------------------------------------ values
\* Python's None; points are <<x, y>>, references are <<id>>, so that every optional
\* value is a tuple.
None == <<>>

Coords == 0..MaxCoord
Points == Coords \X Coords

\* QPoint.isNull(): both coordinates are zero.
isNull(p) == p[1] = 0 /\ p[2] = 0

\* Truth value of an Optional[QPoint] in `if self.start_pos and self.end_pos` and in
\* `if self.is_snipping and self.start_pos`: None is false, and a QPoint is false
\* when isNull() (PySide6 generates __bool__ from isNull()).
Truthy(p) == p # None /\ ~isNull(p)

\* QRect(topLeft, bottomRight): the two corners, both inclusive.
QRect(a, b) == [x1 |-> a[1], y1 |-> a[2], x2 |-> b[1], y2 |-> b[2]]

\* QRect.width() and QRect.height(); QRect.x() and QRect.y() are x1 and y1.
width(r) == r.x2 - r.x1 + 1
height(r) == r.y2 - r.y1 + 1

\* QRect.normalized() of Qt 6: an axis whose second corner lies before the first has
\* its edges swapped, which moves both corners inwards by one.
normalized(r) ==
  [x1 |-> IF r.x2 < r.x1 THEN r.x2 + 1 ELSE r.x1,
   x2 |-> IF r.x2 < r.x1 THEN r.x1 - 1 ELSE r.x2,
   y1 |-> IF r.y2 < r.y1 THEN r.y2 + 1 ELSE r.y1,
   y2 |-> IF r.y2 < r.y1 THEN r.y1 - 1 ELSE r.y2]

\* The rectangle end_capture passes to capture_region and paintEvent clears.
SelectionRect(a, b) == normalized(QRect(a, b))

\* grabWindow handed the far corner in place of the width and height.
GrabArgs_corners(r) == [x |-> r.x1, y |-> r.y1, w |-> r.x2, h |-> r.y2]

\* The arguments capture_region hands to screen.grabWindow(0, x, y, w, h).
GrabArgs(r) == [x |-> r.x1, y |-> r.y1, w |-> width(r), h |-> height(r)]

\* ------------------------------------------------------------------ strings
\* A Python str is a tuple of one-character strings.
file_scheme == <<"f", "i", "l", "e", ":", "/", "/", "/">>
temp_file == <<"s", "c", "r", "e", "e", "n", "s", "h", "o", "t", ".", "p", "n", "g">>

\* str.replace(old, ""): every non-overlapping occurrence of old, left to right.
RECURSIVE replace(_, _)
replace(s, old) ==
  IF Len(s) < Len(old) THEN s
  ELSE IF SubSeq(s, 1, Len(old)) = old
       THEN replace(SubSeq(s, Len(old) + 1, Len(s)), old)
       ELSE <<Head(s)>> \o replace(Tail(s), old)

\* The printable ASCII characters, code 32 onwards (code 96 is written as a token).
Ascii ==
  <<" ", "!", "\"", "#", "$", "%", "&", "'", "(", ")", "*", "+", ",", "-", ".", "/",
    "0", "1", "2", "3", "4", "5", "6", "7", "8", "9", ":", ";", "<", "=", ">", "?",
    "@", "A", "B", "C", "D", "E", "F", "G", "H", "I", "J", "K", "L", "M", "N", "O",
    "P", "Q", "R", "S", "T", "U", "V", "W", "X", "Y", "Z", "[", "\\", "]", "^", "_",
    "<backtick>", "a", "b", "c", "d", "e", "f", "g", "h", "i", "j", "k", "l", "m", "n", "o",
    "p", "q", "r", "s", "t", "u", "v", "w", "x", "y", "z", "{", "|", "}", "~">>

\* The character of a byte value as urllib.parse.unquote decodes it: printable ASCII
\* is itself; anything else is shown by a marker (a control character, or U+FFFD for
\* a byte that is not UTF-8 on its own).
Chr(n) == IF n >= 32 /\ n <= 126 THEN Ascii[n - 31] ELSE "<?>"

HexDigits ==
  {"0", "1", "2", "3", "4", "5", "6", "7", "8", "9",
   "a", "b", "c", "d", "e", "f", "A", "B", "C", "D", "E", "F"}

HexVal(c) ==
  CASE c = "0" -> 0 [] c = "1" -> 1 [] c = "2" -> 2 [] c = "3" -> 3 [] c = "4" -> 4
    [] c = "5" -> 5 [] c = "6" -> 6 [] c = "7" -> 7 [] c = "8" -> 8 [] c = "9" -> 9
    [] c \in {"a", "A"} -> 10 [] c \in {"b", "B"} -> 11 [] c \in {"c", "C"} -> 12
    [] c \in {"d", "D"} -> 13 [] c \in {"e", "E"} -> 14 [] c \in {"f", "F"} -> 15

\* urllib.parse.unquote: every %XX with two hex digits becomes the character of that
\* byte; any other % stays as it is.
RECURSIVE unquote(_)
unquote(s) ==
  IF s = <<>> THEN <<>>
  ELSE IF Head(s) = "%" /\ Len(s) >= 3 /\ s[2] \in HexDigits /\ s[3] \in HexDigits
       THEN <<Chr(16 * HexVal(s[2]) + HexVal(s[3]))>> \o unquote(SubSeq(s, 4, Len(s)))
       ELSE <<Head(s)>> \o unquote(Tail(s))

\* ------------------------------------------------------------------ OCR stage
\* What the environment does to one remote OCR attempt: it answers with text, or it
\* fails while the image is decoded (Image.open), while the request is sent
\* (network, auth) or while the answer is read (response.text of a malformed answer).
RemoteOutcomes == {"ok", "decode", "network", "auth", "malformed"}

\* A str built by an f-string is <<literal prefix, formatted detail>>; the model's
\* extracted text has the empty prefix.
ErrorDuringOcr == "Error during OCR: "
ErrorProcessingOcr == "Error processing OCR: "
extracted_text == <<"", "text">>

\* The outcome of a call: a returned value or a raised exception.
Return(v) == [raised |-> FALSE, value |-> v]
Raise(e) == [raised |-> TRUE, value |-> e]

\* perform_ocr_with_gemini with an except clause that catches only the ValueError of
\* a malformed answer: every other failure is raised to the caller.
perform_ocr_narrow_except(remote) ==
  IF remote = "ok"
  THEN Return(extracted_text)
  ELSE IF remote = "malformed"
  THEN Return(<<ErrorDuringOcr, remote>>)
  ELSE Raise(remote)

\* perform_ocr_with_gemini(image_data, gemini_api_key): the whole body sits in
\* try / except Exception, so every failure comes back as a string.
perform_ocr_with_gemini(remote) ==
  IF remote = "ok"
  THEN Return(extracted_text)
  ELSE Return(<<ErrorDuringOcr, remote>>)

\* process_ocr with open() and read() outside the try block: a file that cannot be
\* read raises out of the slot and nothing is emitted.
process_ocr_unguarded_read(image_path, readable, remote) ==
  LET decoded_path == unquote(replace(image_path, file_scheme))
      ocr == perform_ocr_with_gemini(remote)
  IN  IF ~readable
      THEN [image_path |-> image_path, opened |-> <<decoded_path>>, remoteCalls |-> 0,
            raised |-> TRUE, emitted |-> <<>>]
      ELSE [image_path |-> image_path, opened |-> <<decoded_path>>, remoteCalls |-> 1,
            raised |-> FALSE,
            emitted |-> << <<"ocrResultReady",
                            IF ocr.raised THEN <<ErrorProcessingOcr, ocr.value>>
                                          ELSE ocr.value>> >>]

\* process_ocr with an except branch that only logs: a file that cannot be read
\* yields no ocrResultReady at all.
process_ocr_silent_failure(image_path, readable, remote) ==
  LET decoded_path == unquote(replace(image_path, file_scheme))
      ocr == perform_ocr_with_gemini(remote)
  IN  IF ~readable \/ ocr.raised
      THEN [image_path |-> image_path, opened |-> <<decoded_path>>,
            remoteCalls |-> IF readable THEN 1 ELSE 0, raised |-> FALSE,
            emitted |-> <<>>]
      ELSE [image_path |-> image_path, opened |-> <<decoded_path>>, remoteCalls |-> 1,
            raised |-> FALSE, emitted |-> << <<"ocrResultReady", ocr.value>> >>]

\* SnippingTool.process_ocr(image_path). readable: whether open() and read() of the
\* decoded path succeed. The result names the argument, the path handed to open(),
\* the number of calls of perform_ocr_with_gemini, the signals emitted and whether an
\* exception left the slot.
process_ocr(image_path, readable, remote) ==
  LET path_part == replace(image_path, file_scheme)
      decoded_path == unquote(path_part)
      ocr == perform_ocr_with_gemini(remote)
  IN  IF ~readable
      THEN [image_path |-> image_path, opened |-> <<decoded_path>>, remoteCalls |-> 0, raised |-> FALSE,
            emitted |-> << <<"ocrResultReady", <<ErrorProcessingOcr, "open">> >> >>]
      ELSE IF ocr.raised
      THEN [image_path |-> image_path, opened |-> <<decoded_path>>, remoteCalls |-> 1, raised |-> FALSE,
            emitted |-> << <<"ocrResultReady", <<ErrorProcessingOcr, ocr.value>> >> >>]
      ELSE [image_path |-> image_path, opened |-> <<decoded_path>>, remoteCalls |-> 1, raised |-> FALSE,
            emitted |-> << <<"ocrResultReady", ocr.value>> >>]

\* The presentation layer's handler of screenshotReady(path): it runs the OCR stage
\* on the path it was given, synchronously, inside the emit.
onScreenshotReady(path, readable, remote) == process_ocr(path, readable, remote)

\* ------------------------------------------------------------------ capture stage
Platforms == {"posix", "windows"}

\* The process's working directory and os.sep, per platform.
getcwd(os) ==
  IF os = "windows" THEN <<"C", ":", "\\", "w">> ELSE <<"/", "w">>
sep(os) == IF os = "windows" THEN "\\" ELSE "/"

\* os.path.abspath of a bare file name.
abspath(name, os) == getcwd(os) \o <<sep(os)>> \o name

\* QDir.toNativeSeparators: "/" becomes "\" on Windows, nothing changes elsewhere.
toNativeSeparators(path, os) ==
  IF os = "windows"
  THEN [i \in 1..Len(path) |-> IF path[i] = "/" THEN "\\" ELSE path[i]]
  ELSE path

\* What the environment does to one OCR stage: the file cannot be read (then the
\* remote side is never asked), or it can and the remote side does one of its things.
OcrEnvs ==
  {[readable |-> FALSE, remote |-> "ok"]}
    \cup {[readable |-> TRUE, remote |-> r] : r \in RemoteOutcomes}

\* What the environment does to one capture: there is no primary screen, or the grab
\* comes back null, or the grab succeeds, on one of the platforms, and the OCR stage
\* then meets one of OcrEnvs.
CaptureEnvs ==
  {[screen |-> FALSE, grabNull |-> FALSE, platform |-> "posix", readable |-> FALSE,
    remote |-> "ok"],
   [screen |-> TRUE, grabNull |-> TRUE, platform |-> "posix", readable |-> FALSE,
    remote |-> "ok"]}
    \cup {[screen |-> TRUE, grabNull |-> FALSE, platform |-> os,
           readable |-> e.readable, remote |-> e.remote] :
             os \in Platforms, e \in OcrEnvs}

\* A handler that does nothing observable.
Nothing == [grabbed |-> <<>>, written |-> <<>>, emitted |-> <<>>, image_path |-> <<>>,
            opened |-> <<>>, remoteCalls |-> 0, raised |-> FALSE]

\* The path capture_region emits: os.path.abspath(temp_file) with native separators.
local_path(os) == toNativeSeparators(abspath(temp_file, os), os)

\* What the handler of screenshotReady does with the emitted path, per environment
\* (a table, so that it is worked out once).
ScreenshotHandled ==
  [env \in CaptureEnvs |->
     onScreenshotReady(local_path(env.platform), env.readable, env.remote)]

\* capture_region without the pixmap.isNull() test: a null grab is saved and
\* announced like a good one.
capture_region_unchecked_null(rect, env) ==
  LET ocr == ScreenshotHandled[env]
  IN  IF ~env.screen
      THEN Nothing
      ELSE [grabbed |-> <<GrabArgs(rect)>>,
            written |-> <<temp_file>>,
            emitted |-> << <<"screenshotReady", local_path(env.platform)>> >>
                          \o ocr.emitted,
            image_path |-> ocr.image_path,
            opened |-> ocr.opened,
            remoteCalls |-> ocr.remoteCalls,
            raised |-> ocr.raised]

\* SnippingTool.capture_region(rect): the grab, the file written, the signal and,
\* inside the signal, the OCR stage.
capture_region(rect, env) ==
  LET ocr == ScreenshotHandled[env]
  IN  IF ~env.screen
      THEN Nothing
      ELSE IF env.grabNull
      THEN [Nothing EXCEPT !.grabbed = <<GrabArgs(rect)>>]
      ELSE [grabbed |-> <<GrabArgs(rect)>>,
            written |-> <<temp_file>>,
            emitted |-> << <<"screenshotReady", local_path(env.platform)>> >>
                          \o ocr.emitted,
            image_path |-> ocr.image_path,
            opened |-> ocr.opened,
            remoteCalls |-> ocr.remoteCalls,
            raised |-> ocr.raised]

\* ------------------------------------------------------------------ state
VARIABLES
  start_pos,        \* SnippingTool.start_pos: None or a point
  end_pos,          \* SnippingTool.end_pos: None or a point
  is_snipping,      \* SnippingTool.is_snipping
  overlay_window,   \* SnippingTool.overlay_window: None or the FullScreenOverlay
  orphans,          \* open overlay surfaces that no reference names any more
  cursors,          \* depth of QApplication's override cursor stack
  sessionCaptures,  \* capture_region calls since the last start_capture
  last              \* what the most recent handler did (see Did)

vars ==
  <<start_pos, end_pos, is_snipping, overlay_window, orphans, cursors,
    sessionCaptures, last>>

\* What capture_region finds of the session when it is called.
Session(snipping, overlay) == [is_snipping |-> snipping, overlay_window |-> overlay]

\* The record of one handler run: its name, the rectangles it passed to
\* capture_region, what the capture and OCR stages did, and what paintEvent cleared.
\* atGrab is filled in by end_capture: the session as capture_region found it.
Did(name, captured, cleared, stage) ==
  [handler |-> name, captured |-> captured, cleared |-> cleared, atGrab |-> <<>>,
   grabbed |-> stage.grabbed, written |-> stage.written, emitted |-> stage.emitted,
   image_path |-> stage.image_path, opened |-> stage.opened, remoteCalls |-> stage.remoteCalls, raised |-> stage.raised]

Emitting(sig) == [Nothing EXCEPT !.emitted = << <<sig, <<>> >> >>]

\* SnippingTool.__init__
Init ==
  /\ start_pos = None
  /\ end_pos = None
  /\ is_snipping = FALSE
  /\ overlay_window = None
  /\ orphans = 0
  /\ cursors = 0
  /\ sessionCaptures = 0
  /\ last = Did("__init__", <<>>, <<>>, Nothing)

\* A reference to a FullScreenOverlay whose surface is open.
Overlay == <<"FullScreenOverlay">>

\* The number of overlay surfaces open on screen.
OpenSurfaces == orphans + (IF overlay_window = None THEN 0 ELSE 1)

\* SnippingTool.start_capture(). The FullScreenOverlay that overlay_window named
\* before loses its only reference without close(): reference counting destroys it
\* at once (kept = FALSE), a tracing collector leaves it open until it runs
\* (kept = TRUE).
start_capture(kept) ==
  /\ is_snipping' = TRUE
  /\ start_pos' = None
  /\ end_pos' = None
  /\ overlay_window' = Overlay
  /\ orphans' = IF kept THEN orphans + 1 ELSE orphans
  /\ cursors' = cursors + 1
  /\ sessionCaptures' = 0
  /\ last' = Did("start_capture", <<>>, <<>>, Emitting("captureStarted"))

StartCapture ==
  \E kept \in BOOLEAN :
    /\ kept => overlay_window # None
    /\ cursors < MaxCursors
    /\ orphans + (IF kept THEN 1 ELSE 0) + 1 <= MaxSurfaces
    /\ start_capture(kept)

\* end_capture calling capture_region before the session is torn down.
end_capture_capture_first(ep, name) ==
  LET both == Truthy(start_pos) /\ Truthy(ep)
      rect == SelectionRect(start_pos, ep)
  IN  /\ both => sessionCaptures < MaxCaptures
      /\ is_snipping' = FALSE
      /\ cursors' = IF cursors > 0 THEN cursors - 1 ELSE 0
      /\ orphans' = orphans
      /\ overlay_window' = None
      /\ start_pos' = start_pos
      /\ end_pos' = ep
      /\ sessionCaptures' = IF both THEN sessionCaptures + 1 ELSE sessionCaptures
      /\ \E stage \in IF both THEN {capture_region(rect, env) : env \in CaptureEnvs}
                              ELSE {Nothing} :
           last' = [Did(name, IF both THEN <<rect>> ELSE <<>>, <<>>,
                        [stage EXCEPT !.emitted = @ \o << <<"captureEnded", <<>> >> >>])
                      EXCEPT !.atGrab = IF both THEN <<Session(is_snipping, overlay_window)>> ELSE <<>>]

\* end_capture leaving is_snipping as it was.
end_capture_keeps_flag(ep, name) ==
  LET both == Truthy(start_pos) /\ Truthy(ep)
      rect == SelectionRect(start_pos, ep)
  IN  /\ both => sessionCaptures < MaxCaptures
      /\ is_snipping' = is_snipping
      /\ cursors' = IF cursors > 0 THEN cursors - 1 ELSE 0
      /\ orphans' = orphans
      /\ overlay_window' = None
      /\ start_pos' = start_pos
      /\ end_pos' = ep
      /\ sessionCaptures' = IF both THEN sessionCaptures + 1 ELSE sessionCaptures
      /\ \E stage \in IF both THEN {capture_region(rect, env) : env \in CaptureEnvs}
                              ELSE {Nothing} :
           last' = [Did(name, IF both THEN <<rect>> ELSE <<>>, <<>>,
                        [stage EXCEPT !.emitted = << <<"captureEnded", <<>> >> >> \o @])
                      EXCEPT !.atGrab = IF both THEN <<Session(is_snipping', overlay_window')>> ELSE <<>>]

\* SnippingTool.end_capture(), entered with end_pos already set to ep; name is the
\* handler it runs in (the slot itself or mouse_release_event). The environment is
\* consulted only when capture_region is called.
end_capture(ep, name) ==
  LET both == Truthy(start_pos) /\ Truthy(ep)
      rect == SelectionRect(start_pos, ep)
  IN  /\ both => sessionCaptures < MaxCaptures
      /\ is_snipping' = FALSE
      /\ cursors' = IF cursors > 0 THEN cursors - 1 ELSE 0
      /\ orphans' = orphans
      /\ overlay_window' = None
      /\ start_pos' = start_pos
      /\ end_pos' = ep
      /\ sessionCaptures' = IF both THEN sessionCaptures + 1 ELSE sessionCaptures
      /\ \E stage \in IF both THEN {capture_region(rect, env) : env \in CaptureEnvs}
                              ELSE {Nothing} :
           last' = [Did(name, IF both THEN <<rect>> ELSE <<>>, <<>>,
                        [stage EXCEPT !.emitted = << <<"captureEnded", <<>> >> >> \o @])
                      EXCEPT !.atGrab = IF both THEN <<Session(is_snipping', overlay_window')>> ELSE <<>>]

EndCapture == end_capture(end_pos, "end_capture")

\* A pointer event reaches the backend through a FullScreenOverlayWidget, so only
\* while some overlay surface is open.
Delivered == OpenSurfaces > 0

\* mouse_press_event without its is_snipping test.
mouse_press_event_unguarded(p) ==
  /\ start_pos' = p
  /\ last' = Did("mouse_press_event", <<>>, <<>>, Nothing)
  /\ UNCHANGED <<end_pos, is_snipping, overlay_window, orphans, cursors, sessionCaptures>>

\* SnippingTool.mouse_press_event, through FullScreenOverlayWidget.mousePressEvent.
mouse_press_event(p) ==
  /\ start_pos' = IF is_snipping THEN p ELSE start_pos
  /\ last' = Did("mouse_press_event", <<>>, <<>>, Nothing)
  /\ UNCHANGED <<end_pos, is_snipping, overlay_window, orphans, cursors, sessionCaptures>>

MousePressEvent == \E p \in Points : Delivered /\ mouse_press_event(p)

\* mouse_move_event testing is_snipping only, not start_pos.
mouse_move_event_unguarded(p) ==
  /\ end_pos' = IF is_snipping THEN p ELSE end_pos
  /\ last' = Did("mouse_move_event", <<>>, <<>>,
                 [Nothing EXCEPT !.raised = is_snipping /\ overlay_window = None])
  /\ UNCHANGED <<start_pos, is_snipping, overlay_window, orphans, cursors,
                 sessionCaptures>>

\* SnippingTool.mouse_move_event, through FullScreenOverlayWidget.mouseMoveEvent.
\* self.overlay_window.update() raises AttributeError when overlay_window is None.
mouse_move_event(p) ==
  LET taken == is_snipping /\ Truthy(start_pos)
  IN  /\ end_pos' = IF taken THEN p ELSE end_pos
      /\ last' = Did("mouse_move_event", <<>>, <<>>,
                     [Nothing EXCEPT !.raised = taken /\ overlay_window = None])
      /\ UNCHANGED <<start_pos, is_snipping, overlay_window, orphans, cursors,
                     sessionCaptures>>

MouseMoveEvent == \E p \in Points : Delivered /\ mouse_move_event(p)

\* SnippingTool.mouse_release_event, through FullScreenOverlayWidget.mouseReleaseEvent.
mouse_release_event(p) ==
  IF is_snipping /\ Truthy(start_pos)
  THEN end_capture(p, "mouse_release_event")
  ELSE /\ last' = Did("mouse_release_event", <<>>, <<>>, Nothing)
       /\ UNCHANGED <<start_pos, end_pos, is_snipping, overlay_window, orphans,
                      cursors, sessionCaptures>>

MouseReleaseEvent == \E p \in Points : Delivered /\ mouse_release_event(p)

\* paintEvent clearing QRect(start_pos, end_pos) without normalized().
paintEvent_not_normalized ==
  /\ last' = Did("paintEvent", <<>>,
                 IF Truthy(start_pos) /\ Truthy(end_pos)
                 THEN <<QRect(start_pos, end_pos)>> ELSE <<>>,
                 Nothing)
  /\ UNCHANGED <<start_pos, end_pos, is_snipping, overlay_window, orphans, cursors,
                 sessionCaptures>>

\* FullScreenOverlayWidget.paintEvent: dims the surface, then clears the selection.
paintEvent ==
  /\ last' = Did("paintEvent", <<>>,
                 IF Truthy(start_pos) /\ Truthy(end_pos)
                 THEN <<SelectionRect(start_pos, end_pos)>> ELSE <<>>,
                 Nothing)
  /\ UNCHANGED <<start_pos, end_pos, is_snipping, overlay_window, orphans, cursors,
                 sessionCaptures>>

PaintEvent == Delivered /\ paintEvent

\* The paths the presentation layer hands to the process_ocr slot: with or without
\* the file:/// scheme, a root, and a file name; some of them percent-encoded.
Schemes == {<<>>, file_scheme}
Roots == {<<"/", "w", "/">>, <<"w", "/">>, <<"C", ":", "/">>, <<"C", "%", "3", "A", "/">>}
Names ==
  {<<"a">>, <<"a", "%", "2", "0", "b">>, <<"%", "4", "1">>, file_scheme \o <<"a">>}
InputPaths == {scheme \o root \o name : scheme \in Schemes, root \in Roots, name \in Names}

\* The slot process_ocr(image_path), called by the presentation layer with one path
\* under one environment.
ProcessOcrCall(image_path, env) ==
  /\ last' = Did("process_ocr", <<>>, <<>>,
                 LET ocr == process_ocr(image_path, env.readable, env.remote)
                 IN  [Nothing EXCEPT !.image_path = ocr.image_path,
                                     !.opened = ocr.opened,
                                     !.remoteCalls = ocr.remoteCalls,
                                     !.emitted = ocr.emitted,
                                     !.raised = ocr.raised])
  /\ UNCHANGED <<start_pos, end_pos, is_snipping, overlay_window, orphans, cursors,
                 sessionCaptures>>

ProcessOcr == \E image_path \in InputPaths, env \in OcrEnvs : ProcessOcrCall(image_path, env)

\* The garbage collector destroys the overlays nothing refers to.
Finalize ==
  /\ orphans > 0
  /\ orphans' = 0
  /\ UNCHANGED <<start_pos, end_pos, is_snipping, overlay_window, cursors,
                 sessionCaptures, last>>

Next ==
  \/ StartCapture
  \/ EndCapture
  \/ MousePressEvent
  \/ MouseMoveEvent
  \/ MouseReleaseEvent
  \/ PaintEvent
  \/ Finalize

Spec == Init /\ [][Next]_vars

\* The OCR slot on its own, applied to every input path under every environment.
NextOcr == ProcessOcr

SpecOcr == Init /\ [][NextOcr]_vars

\* ------------------------------------------------------------------ properties
Min(i, j) == IF i <= j THEN i ELSE j
Max(i, j) == IF i >= j THEN i ELSE j

\* The bounding box of two points: min and max per axis, both corners inclusive.
BoundingBox(a, b) ==
  [x1 |-> Min(a[1], b[1]), y1 |-> Min(a[2], b[2]),
   x2 |-> Max(a[1], b[1]), y2 |-> Max(a[2], b[2])]

\* The rectangles the most recent handler derived from the drag state: the one
\* end_capture passed to capture_region, the one paintEvent cleared.
Derived == {last.captured[i] : i \in 1..Len(last.captured)}
             \cup {last.cleared[i] : i \in 1..Len(last.cleared)}

\* The signals of one name among those the most recent handler emitted.
Positions(sig) == {i \in 1..Len(last.emitted) : last.emitted[i][1] = sig}

\* The most recent handler ran end_capture (as the slot or from mouse_release_event).
EndCaptureRan == Positions("captureEnded") # {}

\* C1: every rectangle end_capture or paintEvent derives from start and end has
\* non-negative width and height, is the bounding box of the two points, and is the
\* rectangle derived from the two points in the other order.
C1_DirectionIndependent ==
  \A r \in Derived :
    /\ width(r) >= 0
    /\ height(r) >= 0
    /\ r = BoundingBox(start_pos, end_pos)
    /\ r = SelectionRect(end_pos, start_pos)

\* C2: in an active session, a pointer-up at (x2, y2) after a pointer-down at
\* (x1, y1), with x2 >= x1 and y2 >= y1, makes exactly one capture_region call, and
\* the rectangle grabbed is x = x1, y = y1, width = x2 - x1, height = y2 - y1.
C2_ForwardDragGrabsDifference ==
  [][\A q \in Points :
       (/\ is_snipping
        /\ start_pos # None
        /\ q[1] >= start_pos[1]
        /\ q[2] >= start_pos[2]
        /\ Delivered
        /\ mouse_release_event(q))
       => /\ Len(last'.captured) = 1
          /\ GrabArgs(last'.captured[1]) =
               [x |-> start_pos[1], y |-> start_pos[2],
                w |-> q[1] - start_pos[1], h |-> q[2] - start_pos[2]]]_vars

\* C3: in an active session, a pointer-up at q after a pointer-down at any point
\* sets end_pos to q and ends the session: is_snipping is false and overlay_window
\* is None afterwards.
C3_ReleaseEndsSession ==
  [][\A q \in Points :
       (is_snipping /\ start_pos # None /\ Delivered /\ mouse_release_event(q))
       => (end_pos' = q /\ ~is_snipping' /\ overlay_window' = None)]_vars

\* C4: end_capture calls capture_region exactly once when start_pos and end_pos are
\* both set, whatever their coordinates, and not at all when either is None.
C4_CaptureIffBothSet ==
  EndCaptureRan =>
    Len(last.captured) = (IF start_pos # None /\ end_pos # None THEN 1 ELSE 0)

\* C5: at most one overlay surface is open at a time, and start_capture takes effect
\* only from Idle: no step that is a start_capture starts while is_snipping is true.
C5_OneSessionOneSurface ==
  [][/\ OpenSurfaces' <= 1
     /\ (\E kept \in BOOLEAN : start_capture(kept)) => ~is_snipping]_vars

\* C6: after start_capture returns, and after end_capture returns, start_pos and
\* end_pos are both None.
C6_DragStateEmptyAtBoundaries ==
  (last.handler = "start_capture" \/ EndCaptureRan)
    => (start_pos = None /\ end_pos = None)

\* C7: between two consecutive start_capture calls capture_region is called at most
\* once.
C7_ConsumedAtMostOnce == sessionCaptures <= 1

\* The one signal ocrResultReady(<<prefix, detail>>), and nothing else.
OnlyOcrResult(emitted, prefix) ==
  /\ Len(emitted) = 1
  /\ emitted[1][1] = "ocrResultReady"
  /\ emitted[1][2][1] = prefix

\* C8: when the file cannot be opened or read, process_ocr raises nothing past the
\* slot, emits ocrResultReady once with a string that begins "Error processing OCR:",
\* and never calls the remote OCR function.
C8_UnreadableFileIsReported ==
  [][\A image_path \in InputPaths, env \in OcrEnvs :
       (~env.readable /\ ProcessOcrCall(image_path, env))
       => /\ ~last'.raised
          /\ OnlyOcrResult(last'.emitted, ErrorProcessingOcr)
          /\ last'.remoteCalls = 0]_vars

C8_Witness ==
  /\ last.handler = "process_ocr"
  /\ last.remoteCalls = 0
  /\ OnlyOcrResult(last.emitted, ErrorProcessingOcr)

\* C9: when the remote OCR call fails (image decode, network, auth, malformed
\* answer), perform_ocr_with_gemini returns "Error during OCR: <details>" instead of
\* raising, and process_ocr emits that string through ocrResultReady.
C9_RemoteFailureIsReported ==
  [][\A image_path \in InputPaths, env \in OcrEnvs :
       (env.readable /\ env.remote # "ok" /\ ProcessOcrCall(image_path, env))
       => /\ ~perform_ocr_with_gemini(env.remote).raised
          /\ perform_ocr_with_gemini(env.remote).value[1] = ErrorDuringOcr
          /\ ~last'.raised
          /\ last'.remoteCalls = 1
          /\ last'.emitted =
               << <<"ocrResultReady", <<ErrorDuringOcr, env.remote>> >> >>]_vars

C9_Witness ==
  /\ last.handler = "process_ocr"
  /\ last.remoteCalls = 1
  /\ OnlyOcrResult(last.emitted, ErrorDuringOcr)

\* C10: every run of process_ocr emits ocrResultReady exactly once, so a handler
\* emits as many ocrResultReady as screenshotReady, and each ocrResultReady comes
\* after a screenshotReady of the same handler.
C10_OneResultAfterCapture ==
  /\ Cardinality(Positions("ocrResultReady")) = (IF last.image_path = <<>> THEN 0 ELSE 1)
  /\ Cardinality(Positions("ocrResultReady")) = Cardinality(Positions("screenshotReady"))
  /\ \A i \in Positions("ocrResultReady") :
       \E j \in Positions("screenshotReady") : j < i

C10_Witness ==
  /\ EndCaptureRan
  /\ Positions("screenshotReady") # {}
  /\ Positions("ocrResultReady") # {}

\* The record end_capture leaves when it has passed rect to capture_region and the
\* capture met env.
Captured(name, rect, env) ==
  [Did(name, <<rect>>, <<>>,
       [capture_region(rect, env) EXCEPT !.emitted = << <<"captureEnded", <<>> >> >> \o @])
   EXCEPT !.atGrab = <<Session(FALSE, None)>>]

\* C11: when there is no primary screen, or the grab comes back null, capture_region
\* writes no file and emits no screenshotReady, no OCR stage follows, and the system
\* is Idle afterwards: is_snipping is false and overlay_window is None.
C11_FailedCaptureIsSilent ==
  [][\A env \in CaptureEnvs :
       (/\ ~env.screen \/ env.grabNull
        /\ Len(last'.captured) = 1
        /\ last' = Captured(last'.handler, last'.captured[1], env))
       => /\ last'.written = <<>>
          /\ \A i \in 1..Len(last'.emitted) : last'.emitted[i][1] = "captureEnded"
          /\ last'.image_path = <<>>
          /\ last'.remoteCalls = 0
          /\ ~is_snipping'
          /\ overlay_window' = None]_vars

C11_Witness ==
  /\ Len(last.captured) = 1
  /\ last.written = <<>>
  /\ last.emitted = << <<"captureEnded", <<>> >> >>
  /\ ~is_snipping
  /\ overlay_window = None

\* A path with "\" written as "/": two native paths that differ only in their
\* separators name the same file.
ToSlashes(path) == [i \in 1..Len(path) |-> IF path[i] = "\\" THEN "/" ELSE path[i]]
Equivalent(a, b) == ToSlashes(a) = ToSlashes(b)

\* Percent-encoding of a path inside a URI: ":", " " and "%" are encoded, "/" and
\* letters are kept.
RECURSIVE PercentEncode(_)
PercentEncode(path) ==
  IF path = <<>> THEN <<>>
  ELSE (CASE Head(path) = ":" -> <<"%", "3", "A">>
          [] Head(path) = " " -> <<"%", "2", "0">>
          [] Head(path) = "%" -> <<"%", "2", "5">>
          [] OTHER -> <<Head(path)>>) \o PercentEncode(Tail(path))

\* The file:/// URI of an absolute native path: file:// and then the path, which
\* begins with "/" (a drive-letter path is given one).
FileUri(path) ==
  <<"f", "i", "l", "e", ":", "/", "/">>
    \o (IF Head(path) = "/" THEN <<>> ELSE <<"/">>) \o PercentEncode(path)

\* Absolute native paths: POSIX ones and drive-letter ones.
NativePaths ==
  { <<"/", "w", "/", "a">>, <<"/", "w", "/", "a", " ", "b">>,
    <<"C", ":", "/", "a">>, <<"C", ":", "/", "a", " ", "b">> }

\* C12: for every absolute native path P, POSIX or drive-letter, process_ocr given
\* the percent-encoded file:/// URI of P opens a path equivalent to P.
C12_FileUriOpensNativePath ==
  [][\A path \in NativePaths, env \in OcrEnvs :
       ProcessOcrCall(FileUri(path), env)
       => (Len(last'.opened) = 1 /\ Equivalent(last'.opened[1], path))]_vars

\* The path begins with the file:// scheme.
HasScheme(path) ==
  Len(path) >= 7 /\ SubSeq(path, 1, 7) = <<"f", "i", "l", "e", ":", "/", "/">>

\* C13: process_ocr given a path without the file:// scheme opens exactly that path,
\* also when it holds a percent sign followed by two hex digits or the text file:///
\* further in.
C13_PlainPathOpenedUnchanged ==
  [][\A image_path \in InputPaths, env \in OcrEnvs :
       (~HasScheme(image_path) /\ ProcessOcrCall(image_path, env))
       => last'.opened = <<image_path>>]_vars

\* C14: in every reachable state, end_pos being set implies start_pos is set.
C14_EndImpliesStart == end_pos # None => start_pos # None

C14_Witness ==
  /\ last.handler = "mouse_move_event"
  /\ end_pos # None
  /\ start_pos # None

\* The session fields a pointer event may touch.
session == <<start_pos, end_pos, is_snipping, overlay_window>>

\* The handlers of pointer events. A step has run one of them when last' names it
\* and no orphaned overlay was collected (Finalize leaves last as it was).
PointerHandlers == {"mouse_press_event", "mouse_move_event", "mouse_release_event"}
PointerStep == last'.handler \in PointerHandlers /\ orphans' = orphans

\* C15: a pointer-move before any pointer-down of the session, and a pointer-down,
\* move or up while not active, leave start_pos, end_pos, is_snipping and
\* overlay_window unchanged and call capture_region not at all.
C15_IgnoredPointerEvents ==
  [][(/\ PointerStep
      /\ \/ ~is_snipping
         \/ last'.handler = "mouse_move_event" /\ start_pos = None)
     => (UNCHANGED session /\ last'.captured = <<>>)]_vars

C15_Witness ==
  /\ last.handler = "mouse_move_event"
  /\ is_snipping
  /\ start_pos = None
  /\ end_pos = None
  /\ last.captured = <<>>

\* C16: whenever is_snipping is false, every override cursor pushed by
\* start_capture has been popped.
C16_IdleCursorRestored == ~is_snipping => cursors = 0

\* C17: pointer-down and pointer-up at the same point p of an active session never
\* raise, and lead to no capture or to a grab of at most 1x1 at p.
C17_ZeroAreaGesture ==
  [][\A p \in Points :
       (is_snipping /\ start_pos = p /\ Delivered /\ mouse_release_event(p))
       => /\ ~last'.raised
          /\ \/ last'.captured = <<>> /\ last'.grabbed = <<>>
             \/ /\ Len(last'.captured) = 1
                /\ LET g == GrabArgs(last'.captured[1])
                   IN  /\ g.x = p[1] /\ g.y = p[2]
                       /\ g.w \in 0..1 /\ g.h \in 0..1
                       /\ last'.grabbed \in {<<>>, <<g>>}]_vars

C17_Witness ==
  /\ last.handler = "mouse_release_event"
  /\ start_pos = end_pos
  /\ Len(last.captured) = 1
  /\ last.grabbed # <<>>
  /\ ~last.raised

\* C18: a session opens with captureStarted alone; screenshotReady is emitted only
\* after captureEnded in the same end_capture, and capture_region is called only
\* once is_snipping is false and the overlay is closed.
C18_EventOrder ==
  /\ (last.handler = "start_capture") = (Positions("captureStarted") # {})
  /\ Positions("captureStarted") # {} => (Len(last.emitted) = 1 /\ is_snipping)
  /\ \A i \in Positions("screenshotReady") :
       \E j \in Positions("captureEnded") : j < i
  /\ last.captured # <<>>
     => (Positions("captureEnded") # {} /\ last.atGrab = <<Session(FALSE, None)>>)

C18_Witness ==
  /\ last.handler = "mouse_release_event"
  /\ Positions("screenshotReady") # {}
  /\ last.atGrab # <<>>

\* C19: paintEvent changes no session state; it clears the rectangle end_capture
\* passes to capture_region for the same start_pos and end_pos, and nothing when
\* either is absent.
C19_PaintShowsTheCapture ==
  [][/\ (Delivered /\ paintEvent)
        => /\ UNCHANGED session
           /\ (start_pos = None \/ end_pos = None) => last'.cleared = <<>>
     /\ (last.handler = "paintEvent" /\ Delivered /\ paintEvent)
        => last'.cleared = last.cleared
     /\ (last.handler = "paintEvent" /\ EndCapture)
        => last'.captured = last.cleared]_vars

C19_Witness ==
  /\ last.handler = "paintEvent"
  /\ Len(last.cleared) = 1
  /\ end_pos[1] < start_pos[1]

\* C20: between handlers is_snipping holds exactly when overlay_window is set, and
\* mouse_move_event has not called update() on a missing overlay.
C20_SnippingIffOverlay ==
  /\ is_snipping <=> overlay_window # None
  /\ last.handler = "mouse_move_event" => ~last.raised

C20_Witness ==
  /\ last.handler = "mouse_move_event"
  /\ is_snipping
  /\ overlay_window # None
  /\ end_pos # None

====
